---- MODULE Spec2Model ----
(***************************************************************************)
(* Model of get_polymarket_keys.py: a straight-line script that builds a   *)
(* ClobClient from a hard-coded private key, asks the venue to create or   *)
(* derive the API credentials of that key, and prints them twice.          *)
(*                                                                         *)
(* Text is modelled as a sequence of chunks.  A chunk is either a literal  *)
(* piece of a source string that holds no line break, one character of a   *)
(* venue-issued value, or the line break "\n".  Standard output is the     *)
(* chunk stream the prints append to; its lines are obtained by splitting  *)
(* the stream at the line breaks.                                          *)
(*                                                                         *)
(* ClobClient and create_or_derive_api_creds belong to the py_clob_client  *)
(* library: each either returns or raises, chosen nondeterministically.    *)
(* An exception is recorded by its cause and the line that raised it; the  *)
(* exception class is the library's business and is not modelled.          *)
(***************************************************************************)
EXTENDS Integers, Sequences, FiniteSets

VARIABLES pc, stdout, stderr, exit_status, client, creds, requests,
          response, raised, key_sinks

vars == <<pc, stdout, stderr, exit_status, client, creds, requests,
          response, raised, key_sinks>>

(* ---------------------------- bounds ---------------------------------- *)

\* longest venue-issued value, in characters
MaxLen == 1

(* ------------------------ program constants --------------------------- *)

private_key == <<"0x4c114c6fe82b4f9ddd47a9d94d2eb2fe4ad1842a54b8434b4bc50eb9109ca70a">>

chain_id == 137

host == <<"https://clob.polymarket.com">>

(* ----------------------- the library's outcomes ----------------------- *)

\* characters a venue-issued value is made of (a value is any string)
\* the venue is never sent the key itself, so no value is made of it
ValueChars == {"a", "b", "\n"}

Values == UNION {[1..n -> ValueChars] : n \in 0..MaxLen}

\* the ApiCreds object returned by create_or_derive_api_creds
ApiCreds == [api_key : Values, api_secret : Values, api_passphrase : Values]

\* why a library call raises
Causes == {"key_malformed", "key_rejected", "unreachable", "timeout", "non_2xx"}

Rejected(cause) == cause \in {"key_malformed", "key_rejected"}

(* ------------------------------ text ---------------------------------- *)

\* print(s): the text followed by the default end, one line break
print(s) == s \o <<"\n">>

\* f"NAME={value}": formatting a str with an empty format spec copies it
fstr(name, value) == <<name>> \o value

CONNECTING == <<"[*] Connecting to Polymarket CLOB...">>

DERIVING == <<"[*] Deriving API credentials...">>

SUCCESS == <<"\n", "SUCCESS! Your Polymarket CLOB credentials:", "\n">>

UPDATE == <<"Update your .env.local file with:">>

API_KEY == "POLYMARKET_API_KEY="

SECRET == "POLYMARKET_SECRET="

PASSPHRASE == "POLYMARKET_PASSPHRASE="

Line15Text(c) == print(fstr(API_KEY, c.api_key))

\* faulty variant: the secret line shows the api key (copied line, field not changed)
Line16TextCopied(c) == print(fstr(SECRET, c.api_key))

Line16Text(c) == print(fstr(SECRET, c.api_secret))

Line17Text(c) == print(fstr(PASSPHRASE, c.api_passphrase) \o <<"\n">>)

Line20Text(c) == print(fstr(API_KEY, c.api_key))

\* faulty variant: the second secret line shows the passphrase
Line21TextSwapped(c) == print(fstr(SECRET, c.api_passphrase))

Line21Text(c) == print(fstr(SECRET, c.api_secret))

Line22Text(c) == print(fstr(PASSPHRASE, c.api_passphrase))

(* ----------------------------- the run -------------------------------- *)

Init ==
    /\ pc = "L8"
    /\ stdout = <<>>
    /\ stderr = <<>>
    /\ exit_status = <<>>
    /\ client = <<>>
    /\ creds = <<>>
    /\ requests = 0
    /\ response = <<>>
    /\ raised = <<>>
    /\ key_sinks = {}

\* faulty variant: the exception is reported but the process exits with status 0
UncaughtExitsZero(line, cause) ==
    /\ raised' = <<[raised_at |-> line, cause |-> cause]>>
    /\ pc' = "failed"
    /\ stderr' = <<[traceback_of |-> raised'[1]]>>
    /\ exit_status' = <<0>>

\* an exception no handler catches: traceback on stderr, exit status 1
Uncaught(line, cause) ==
    /\ raised' = <<[raised_at |-> line, cause |-> cause]>>
    /\ pc' = "failed"
    /\ stderr' = <<[traceback_of |-> raised'[1]]>>
    /\ exit_status' = <<1>>

\* faulty variant: the progress line shows the key it connects with
Line8ShowsKey ==
    /\ pc = "L8"
    /\ stdout' = stdout \o print(CONNECTING \o private_key)
    /\ pc' = "L9"
    /\ UNCHANGED <<stderr, exit_status, client, creds, requests, response, raised, key_sinks>>

\* print("[*] Connecting to Polymarket CLOB...")
Line8 ==
    /\ pc = "L8"
    /\ stdout' = stdout \o print(CONNECTING)
    /\ pc' = "L9"
    /\ UNCHANGED <<stderr, exit_status, client, creds, requests, response, raised, key_sinks>>

\* faulty variant: the session is not bound before the script goes on to derive
Line9Unbound ==
    /\ pc = "L9"
    /\ pc' = "L11"
    /\ UNCHANGED <<stdout, stderr, exit_status, client, creds, requests, response, raised, key_sinks>>

\* client = ClobClient(host=..., chain_id=chain_id, key=private_key)
Line9 ==
    /\ pc = "L9"
    /\ key_sinks' = key_sinks \cup {"ClobClient"}
    /\ client' = <<[host |-> host, chain_id |-> chain_id, key |-> private_key]>>
    /\ pc' = "L11"
    /\ UNCHANGED <<stdout, stderr, exit_status, creds, requests, response, raised>>

\* ClobClient(...) raises
Line9Raise ==
    /\ pc = "L9"
    /\ key_sinks' = key_sinks \cup {"ClobClient"}
    /\ \E cause \in Causes : Uncaught("L9", cause)
    /\ UNCHANGED <<stdout, client, creds, requests, response>>

\* print("[*] Deriving API credentials...")
Line11 ==
    /\ pc = "L11"
    /\ stdout' = stdout \o print(DERIVING)
    /\ pc' = "L12"
    /\ UNCHANGED <<stderr, exit_status, client, creds, requests, response, raised, key_sinks>>

\* client.create_or_derive_api_creds() is entered: the request goes out
Line12Call ==
    /\ pc = "L12"
    /\ requests' = requests + 1
    /\ pc' = "awaiting"
    /\ UNCHANGED <<stdout, stderr, exit_status, client, creds, response, raised, key_sinks>>

\* creds = <the returned ApiCreds>
Line12Return ==
    /\ pc = "awaiting"
    /\ \E c \in ApiCreds :
        /\ response' = <<c>>
        /\ creds' = <<c>>
    /\ pc' = "L14"
    /\ UNCHANGED <<stdout, stderr, exit_status, client, requests, raised, key_sinks>>

\* faulty variant: the exception is caught and the script goes on to display
Line12RaiseSwallowed ==
    /\ pc = "awaiting"
    /\ \E cause \in Causes :
        /\ raised' = <<[raised_at |-> "L12", cause |-> cause]>>
        /\ stderr' = <<[traceback_of |-> raised'[1]]>>
    /\ creds' = <<[api_key |-> <<>>, api_secret |-> <<>>, api_passphrase |-> <<>>]>>
    /\ pc' = "L14"
    /\ UNCHANGED <<stdout, exit_status, client, requests, response, key_sinks>>

\* faulty variant: the exception is caught and the request is sent again
Line12RaiseRetried ==
    /\ pc = "awaiting"
    /\ requests < 3
    /\ requests' = requests + 1
    /\ UNCHANGED <<pc, stdout, stderr, exit_status, client, creds, response, raised, key_sinks>>

\* faulty variant: the error is printed on standard output before the run aborts
Line12RaisePrinted ==
    /\ pc = "awaiting"
    /\ \E cause \in Causes : Uncaught("L12", cause)
    /\ stdout' = stdout \o print(<<"Error">>)
    /\ UNCHANGED <<client, creds, requests, response, key_sinks>>

\* client.create_or_derive_api_creds() raises
Line12Raise ==
    /\ pc = "awaiting"
    /\ \E cause \in Causes : Uncaught("L12", cause)
    /\ UNCHANGED <<stdout, client, creds, requests, response, key_sinks>>

\* print("\nSUCCESS! Your Polymarket CLOB credentials:\n")
Line14 ==
    /\ pc = "L14"
    /\ stdout' = stdout \o print(SUCCESS)
    /\ pc' = "L15"
    /\ UNCHANGED <<stderr, exit_status, client, creds, requests, response, raised, key_sinks>>

\* print(f"POLYMARKET_API_KEY={creds.api_key}")
Line15 ==
    /\ pc = "L15"
    /\ stdout' = stdout \o Line15Text(creds[1])
    /\ pc' = "L16"
    /\ UNCHANGED <<stderr, exit_status, client, creds, requests, response, raised, key_sinks>>

\* print(f"POLYMARKET_SECRET={creds.api_secret}")
Line16 ==
    /\ pc = "L16"
    /\ stdout' = stdout \o Line16Text(creds[1])
    /\ pc' = "L17"
    /\ UNCHANGED <<stderr, exit_status, client, creds, requests, response, raised, key_sinks>>

\* print(f"POLYMARKET_PASSPHRASE={creds.api_passphrase}\n")
Line17 ==
    /\ pc = "L17"
    /\ stdout' = stdout \o Line17Text(creds[1])
    /\ pc' = "L19"
    /\ UNCHANGED <<stderr, exit_status, client, creds, requests, response, raised, key_sinks>>

\* print("Update your .env.local file with:")
Line19 ==
    /\ pc = "L19"
    /\ stdout' = stdout \o print(UPDATE)
    /\ pc' = "L20"
    /\ UNCHANGED <<stderr, exit_status, client, creds, requests, response, raised, key_sinks>>

\* print(f"POLYMARKET_API_KEY={creds.api_key}")
Line20 ==
    /\ pc = "L20"
    /\ stdout' = stdout \o Line20Text(creds[1])
    /\ pc' = "L21"
    /\ UNCHANGED <<stderr, exit_status, client, creds, requests, response, raised, key_sinks>>

\* print(f"POLYMARKET_SECRET={creds.api_secret}")
Line21 ==
    /\ pc = "L21"
    /\ stdout' = stdout \o Line21Text(creds[1])
    /\ pc' = "L22"
    /\ UNCHANGED <<stderr, exit_status, client, creds, requests, response, raised, key_sinks>>

\* print(f"POLYMARKET_PASSPHRASE={creds.api_passphrase}"), then the script
\* ends and the interpreter exits with status 0
Line22 ==
    /\ pc = "L22"
    /\ stdout' = stdout \o Line22Text(creds[1])
    /\ pc' = "done"
    /\ exit_status' = <<0>>
    /\ UNCHANGED <<stderr, client, creds, requests, response, raised, key_sinks>>

Next ==
    \/ Line8
    \/ Line9
    \/ Line9Raise
    \/ Line11
    \/ Line12Call
    \/ Line12Return
    \/ Line12Raise
    \/ Line14
    \/ Line15
    \/ Line16
    \/ Line17
    \/ Line19
    \/ Line20
    \/ Line21
    \/ Line22

Spec == Init /\ [][Next]_vars

(* ------------- the two presentation blocks, taken alone --------------- *)

\* a credential set is bound and nothing has been written yet; the run
\* stands before the first block (line 15) or before the second (line 20)
InitPresent ==
    /\ pc \in {"L15", "L20"}
    /\ stdout = <<>>
    /\ stderr = <<>>
    /\ exit_status = <<>>
    /\ client = <<[host |-> host, chain_id |-> chain_id, key |-> private_key]>>
    /\ \E c \in ApiCreds :
        /\ response = <<c>>
        /\ creds = <<c>>
    /\ requests = 1
    /\ raised = <<>>
    /\ key_sinks = {"ClobClient"}

NextPresent ==
    \/ Line15
    \/ Line16
    \/ Line17
    \/ Line20
    \/ Line21
    \/ Line22

SpecPresent == InitPresent /\ [][NextPresent]_vars

(* ------------------- reading standard output -------------------------- *)

RECURSIVE SplitFrom(_, _, _)
SplitFrom(s, cur, acc) ==
    IF s = <<>>
    THEN IF cur = <<>> THEN acc ELSE Append(acc, cur)
    ELSE IF Head(s) = "\n"
         THEN SplitFrom(Tail(s), <<>>, Append(acc, cur))
         ELSE SplitFrom(Tail(s), Append(cur, Head(s)), acc)

\* the lines of a text: it is cut after every line break
SplitLines(s) == SplitFrom(s, <<>>, <<>>)

CredentialNames == {API_KEY, SECRET, PASSPHRASE}

\* the places of a text where a credential line starts
CredentialStarts(s) == {i \in DOMAIN s : s[i] \in CredentialNames}

\* the credential fields a text shows
NamesShown(s) == {s[i] : i \in CredentialStarts(s)}

NoLineBreak(c) ==
    \A v \in {c.api_key, c.api_secret, c.api_passphrase} :
        \A i \in DOMAIN v : v[i] # "\n"

\* NAME=value for the three fields, each with its own name, in order
KeyValueLines(c) ==
    << <<"POLYMARKET_API_KEY=">> \o c.api_key,
       <<"POLYMARKET_SECRET=">> \o c.api_secret,
       <<"POLYMARKET_PASSPHRASE=">> \o c.api_passphrase >>

\* the same three, each ended by a line break
KeyValueText(c) ==
    KeyValueLines(c)[1] \o <<"\n">> \o KeyValueLines(c)[2] \o <<"\n">>
        \o KeyValueLines(c)[3] \o <<"\n">>

\* what has been printed when the statement of the given line raises
OutputBefore(line) ==
    IF line = "L9"
    THEN <<"[*] Connecting to Polymarket CLOB...", "\n">>
    ELSE <<"[*] Connecting to Polymarket CLOB...", "\n",
           "[*] Deriving API credentials...", "\n">>

Terminal == {"done", "failed"}

Order ==
    <<"L8", "L9", "L11", "L12", "awaiting", "L14", "L15", "L16", "L17",
      "L19", "L20", "L21", "L22", "done", "failed">>

Rank(p) == CHOOSE i \in DOMAIN Order : Order[i] = p

\* 0: not started, 1: awaiting the remote response, 2: complete or failed
Phase(p) ==
    IF p \in {"L8", "L9", "L11", "L12"} THEN 0
    ELSE IF p = "awaiting" THEN 1 ELSE 2

(* ------------------------------ claims -------------------------------- *)

\* C1: when the client construction or the derive-or-create call raises,
\* the run is aborted at that statement: it has failed, no statement can
\* run any more, standard output holds what was printed before the failing
\* statement and so no credential line.  A run that has ended shows either
\* all three credential fields or none.
C1_NoCredentialAfterFailure ==
    /\ raised # <<>> =>
        /\ pc = "failed"
        /\ ~ ENABLED Next
        /\ stdout = OutputBefore(raised[1].raised_at)
        /\ CredentialStarts(stdout) = {}
    /\ pc \in Terminal => NamesShown(stdout) \in {{}, CredentialNames}

C1_Witness ==
    /\ pc = "failed"
    /\ raised # <<>>
    /\ raised[1].raised_at = "L12"
    /\ raised[1].cause = "timeout"

\* C2 as stated: a presentation block produces exactly the three lines
\* POLYMARKET_API_KEY=a, POLYMARKET_SECRET=b, POLYMARKET_PASSPHRASE=c, for
\* every triplet of string values.
C2_ExactlyThreeLines ==
    pc \in {"L19", "done"} => SplitLines(stdout) = KeyValueLines(creds[1])

\* C2 amended: each block writes the text POLYMARKET_API_KEY=a,
\* POLYMARKET_SECRET=b, POLYMARKET_PASSPHRASE=c, each ended by a line
\* break, in that order, each value unchanged under its own name; the
\* first block (lines 15-17) writes one more line break.  When no value
\* holds a line break these are exactly the three lines, followed by one
\* empty line in the first block.
C2_BlockText ==
    /\ pc = "L19" =>
        /\ stdout = KeyValueText(creds[1]) \o <<"\n">>
        /\ NoLineBreak(creds[1]) =>
            SplitLines(stdout) = KeyValueLines(creds[1]) \o << <<>> >>
    /\ pc = "done" =>
        /\ stdout = KeyValueText(creds[1])
        /\ NoLineBreak(creds[1]) =>
            SplitLines(stdout) = KeyValueLines(creds[1])

C2_Witness ==
    /\ pc = "L19"
    /\ creds[1].api_key = <<"a">>
    /\ creds[1].api_secret = <<"b">>
    /\ creds[1].api_passphrase = <<>>
    /\ Len(stdout) = 9

\* C3 as stated: a successful run writes exactly the three credential
\* lines, twice, and nothing else.
C3_OnlyCredentialLines ==
    pc = "done" =>
        SplitLines(stdout) = KeyValueLines(response[1]) \o KeyValueLines(response[1])

\* C3 amended: a successful run issues one derive call and writes the
\* three credential texts exactly twice, both times with the values of
\* the set that call returned, between fixed texts: the two progress
\* lines, an empty line, the SUCCESS line, an empty line, the first
\* triplet, an empty line, the "Update your .env.local file with:" line,
\* the second triplet; and nothing else.
C3_SuccessfulOutput ==
    pc = "done" =>
        /\ requests = 1
        /\ response # <<>>
        /\ stdout =
              <<"[*] Connecting to Polymarket CLOB...", "\n",
                "[*] Deriving API credentials...", "\n",
                "\n", "SUCCESS! Your Polymarket CLOB credentials:", "\n", "\n">>
              \o KeyValueText(response[1])
              \o <<"\n", "Update your .env.local file with:", "\n">>
              \o KeyValueText(response[1])
        /\ Cardinality(CredentialStarts(stdout)) = 6
        /\ NoLineBreak(response[1]) =>
              SplitLines(stdout) =
                  << <<"[*] Connecting to Polymarket CLOB...">>,
                     <<"[*] Deriving API credentials...">>,
                     <<>>,
                     <<"SUCCESS! Your Polymarket CLOB credentials:">>,
                     <<>> >>
                  \o KeyValueLines(response[1])
                  \o << <<>>, <<"Update your .env.local file with:">> >>
                  \o KeyValueLines(response[1])

C3_Witness ==
    /\ pc = "done"
    /\ response = <<[api_key |-> <<"a">>, api_secret |-> <<"b">>, api_passphrase |-> <<>>]>>
    /\ Cardinality(CredentialStarts(stdout)) = 6

C5_NoRetry ==
    /\ requests \in {0, 1}
    /\ raised # <<>> =>
        /\ pc = "failed"
        /\ exit_status = <<1>>
        /\ stderr = <<[traceback_of |-> raised[1]]>>
        /\ ~ ENABLED Line12Call
        /\ ~ ENABLED Next

C5_Witness ==
    /\ pc = "failed"
    /\ requests = 1
    /\ raised # <<>>
    /\ raised[1].raised_at = "L12"
    /\ raised[1].cause = "unreachable"

\* C6: a run that has not ended can go on; a run that has ended has ended
\* in one of two ways that agree with the library's result: a call raised,
\* and the run failed with exit status 1 and the traceback of that
\* exception; or the derive call returned, and the run printed the
\* credentials and exited with status 0.
C6_OutcomeAgrees ==
    /\ pc \notin Terminal => (exit_status = <<>> /\ ENABLED Next)
    /\ pc \in Terminal => exit_status \in {<<0>>, <<1>>}
    /\ raised # <<>> =>
        /\ pc = "failed"
        /\ exit_status = <<1>>
        /\ stderr = <<[traceback_of |-> raised[1]]>>
    /\ pc = "failed" => (raised # <<>> /\ response = <<>>)
    /\ pc = "done" =>
        /\ response # <<>>
        /\ raised = <<>>
        /\ stderr = <<>>
        /\ exit_status = <<0>>
        /\ NamesShown(stdout) = CredentialNames
    /\ (response # <<>> /\ pc \in Terminal) => pc = "done"

C6_Witness ==
    /\ pc = "failed"
    /\ exit_status = <<1>>
    /\ raised # <<>>
    /\ raised[1].raised_at = "L12"
    /\ raised[1].cause = "non_2xx"

\* C9: the signing key is handed to the ClobClient constructor and to
\* nothing else, and no chunk of standard output is the key.
C9_KeyConfined ==
    /\ key_sinks \subseteq {"ClobClient"}
    /\ client # <<>> => (client[1].key = private_key /\ key_sinks = {"ClobClient"})
    /\ \A i \in DOMAIN stdout : \A k \in DOMAIN private_key : stdout[i] # private_key[k]

C9_Witness ==
    /\ pc = "done"
    /\ key_sinks = {"ClobClient"}
    /\ Len(stdout) > 20

\* C10: every step moves the run forward in the order of the script and
\* never to an earlier phase; no step leaves "done" or "failed"; the
\* request is only issued from line 12, with the session constructed; a
\* credential line is only on standard output once the derive call has
\* returned the set it shows.
C10_Linear ==
    [][ /\ pc \notin Terminal
        /\ Rank(pc') > Rank(pc)
        /\ Phase(pc') >= Phase(pc)
        /\ pc' = "awaiting" => pc = "L12"
        /\ requests' > 0 => client' # <<>>
        /\ CredentialStarts(stdout') # {} => (response' # <<>> /\ creds' = response')
      ]_vars

C10_Witness ==
    /\ pc = "awaiting"
    /\ client # <<>>
    /\ requests = 1
    /\ SplitLines(stdout) = <<CONNECTING, DERIVING>>

====
